---- MODULE Spec2Model ----
(***************************************************************************)
(* zapcloudlogging: the encoder field mappings (encoder.go) and the two    *)
(* configuration builders (config.go).                                     *)
(*                                                                         *)
(* Text is modelled as a sequence of one-character strings, so that        *)
(* strconv.Itoa, TrimmedPath and the RFC 3339 layout are computed          *)
(* character by character.                                                 *)
(***************************************************************************)
EXTENDS Integers, Sequences, FiniteSets, TLC

VARIABLES
    logLevelSeverity,  \* encoder.go: the package-level severity table
    encoderConfig,     \* encoder.go: the package-level zapcore.EncoderConfig
    enc,               \* per logger: the encoder the engine hands to the callbacks
    pc,                \* per logger: position of the callback invocation in progress
    arg,               \* per logger: the evaluated argument of the pending Append call
    calls,             \* per logger: the invocations made so far, in order
    levels,            \* heap: zap.AtomicLevel holders, address -> level
    samplings,         \* heap: *zap.SamplingConfig, address -> record
    arrays,            \* heap: backing arrays of []string, address -> elements
    configs,           \* the zap.Config values the callers hold, in order of return
    returned           \* what each builder call returned, as a value, at return time

vars == <<logLevelSeverity, encoderConfig, enc, pc, arg, calls,
          levels, samplings, arrays, configs, returned>>

encVars == <<enc, pc, arg, calls>>
cfgVars == <<levels, samplings, arrays, configs, returned>>

----
(* Text *)

Digits == <<"0", "1", "2", "3", "4", "5", "6", "7", "8", "9">>

RECURSIVE FormatUint(_)
\* strconv: the decimal digits of n >= 0, most significant first.
FormatUint(n) ==
    IF n < 10 THEN <<Digits[n + 1]>>
    ELSE FormatUint(n \div 10) \o <<Digits[(n % 10) + 1]>>

\* strconv.Itoa(l.Line)
Itoa(n) == IF n < 0 THEN <<"-">> \o FormatUint(-n) ELSE FormatUint(n)

RECURSIVE Pad(_, _)
\* time.appendInt: n >= 0 in at least w digits, zero padded.
Pad(n, w) ==
    IF w <= 1 THEN FormatUint(n)
    ELSE IF Len(FormatUint(n)) >= w THEN FormatUint(n)
    ELSE <<"0">> \o Pad(n, w - 1)

RECURSIVE LastIndexByte(_, _)
\* strings.LastIndexByte, 0-based; -1 when c does not occur in s.
LastIndexByte(s, c) ==
    IF Len(s) = 0 THEN -1
    ELSE IF s[Len(s)] = c THEN Len(s) - 1
    ELSE LastIndexByte(SubSeq(s, 1, Len(s) - 1), c)

----
(* Severity *)

DebugLevel == -1
InfoLevel == 0
WarnLevel == 1
ErrorLevel == 2
DPanicLevel == 3
PanicLevel == 4
FatalLevel == 5

NativeLevels ==
    {DebugLevel, InfoLevel, WarnLevel, ErrorLevel, DPanicLevel, PanicLevel, FatalLevel}

\* zapcore.Level is an int8; the levels the engine may hand to EncodeLevel
\* include values outside the seven named ones.
Levels == NativeLevels \cup {-128, DebugLevel - 1, FatalLevel + 1, 127}

\* The table with the Warn entry misspelt.
SeverityTableWarn ==
    [l \in NativeLevels |->
        CASE l = DebugLevel -> <<"D", "E", "B", "U", "G">>
          [] l = InfoLevel -> <<"I", "N", "F", "O">>
          [] l = WarnLevel -> <<"W", "A", "R", "N">>
          [] l = ErrorLevel -> <<"E", "R", "R", "O", "R">>
          [] l = DPanicLevel -> <<"C", "R", "I", "T", "I", "C", "A", "L">>
          [] l = PanicLevel -> <<"A", "L", "E", "R", "T">>
          [] l = FatalLevel -> <<"E", "M", "E", "R", "G", "E", "N", "C", "Y">>]

\* var logLevelSeverity = map[zapcore.Level]string{...}
SeverityTable ==
    [l \in NativeLevels |->
        CASE l = DebugLevel -> <<"D", "E", "B", "U", "G">>
          [] l = InfoLevel -> <<"I", "N", "F", "O">>
          [] l = WarnLevel -> <<"W", "A", "R", "N", "I", "N", "G">>
          [] l = ErrorLevel -> <<"E", "R", "R", "O", "R">>
          [] l = DPanicLevel -> <<"C", "R", "I", "T", "I", "C", "A", "L">>
          [] l = PanicLevel -> <<"A", "L", "E", "R", "T">>
          [] l = FatalLevel -> <<"E", "M", "E", "R", "G", "E", "N", "C", "Y">>]

\* logLevelSeverity[l]: a Go map read yields the zero value "" for a missing key.
MapIndex(m, l) == IF l \in DOMAIN m THEN m[l] ELSE <<>>

----
(* Values the callbacks hand to the encoder *)

\* The argument of a pending Append call: a string, a sourceLocation struct
\* or a timestamp struct. One record shape for all three.
StringArg(str) ==
    [type |-> "string", str |-> str, File |-> <<>>, Line |-> 0,
     Function |-> <<>>, Seconds |-> 0, Nanos |-> 0]

NoArg == StringArg(<<>>)

\* One field an object's MarshalLogObject adds: AddString, AddInt64 or AddInt.
AddString(key, value) == [key |-> key, type |-> "string", s |-> value, n |-> 0]
AddInt64(key, value) == [key |-> key, type |-> "int64", s |-> <<>>, n |-> value]
AddInt(key, value) == [key |-> key, type |-> "int", s |-> <<>>, n |-> value]

\* One element of the encoder's output.
StringElem(str) == [kind |-> "string", str |-> str, fields |-> <<>>]
ObjectElem(fields) == [kind |-> "object", str |-> <<>>, fields |-> fields]

----
(* Source location *)

\* sourceLocation{File: caller.File, Line: caller.Line, Function: caller.Function}
sourceLocation(caller) ==
    [type |-> "sourceLocation", str |-> <<>>, File |-> caller.File,
     Line |-> caller.Line, Function |-> caller.Function,
     Seconds |-> 0, Nanos |-> 0]

\* MarshalLogObject with the line added as a number.
sourceLocation_MarshalLogObject_IntLine(l) ==
    <<AddString("file", l.File),
      AddInt("line", l.Line),
      AddString("function", l.Function)>>

\* func (l sourceLocation) MarshalLogObject(enc zapcore.ObjectEncoder) error
sourceLocation_MarshalLogObject(l) ==
    <<AddString("file", l.File),
      AddString("line", Itoa(l.Line)),
      AddString("function", l.Function)>>

\* zapcore.EntryCaller.FullPath: "undefined", or File ":" Line.
FullPath(caller) ==
    IF ~caller.Defined THEN <<"u", "n", "d", "e", "f", "i", "n", "e", "d">>
    ELSE caller.File \o <<":">> \o Itoa(caller.Line)

\* zapcore.EntryCaller.TrimmedPath, as called by sourceLocationEncoder: the
\* path from the last directory on, when File holds two separators or more.
TrimmedPath(caller) ==
    IF ~caller.Defined THEN <<"u", "n", "d", "e", "f", "i", "n", "e", "d">>
    ELSE LET idx == LastIndexByte(caller.File, "/") IN
         IF idx = -1 THEN FullPath(caller)
         ELSE LET idx2 == LastIndexByte(SubSeq(caller.File, 1, idx), "/") IN
              IF idx2 = -1 THEN FullPath(caller)
              ELSE SubSeq(caller.File, idx2 + 2, Len(caller.File))
                   \o <<":">> \o Itoa(caller.Line)

\* The caller descriptors the engine hands to EncodeCaller.
Callers ==
    { [Defined |-> TRUE, File |-> <<"a", "/", "b", ".", "g", "o">>, Line |-> 42,
       Function |-> <<"m", "a", "i", "n", ".", "F", "o", "o">>],
      [Defined |-> TRUE, File |-> <<"/", "x", "/", "a", "/", "b", ".", "g", "o">>,
       Line |-> 7, Function |-> <<"a", ".", "f">>],
      [Defined |-> TRUE, File |-> <<"b", ".", "g", "o">>, Line |-> 100,
       Function |-> <<"f">>],
      [Defined |-> FALSE, File |-> <<>>, Line |-> 0, Function |-> <<>>] }

----
(* Time *)

NanosPerSecond == 1000 * 1000 * 1000
SecondsPerDay == 24 * 60 * 60

\* Go's integer division truncates toward zero.
TruncDiv(a, b) == IF a >= 0 THEN a \div b ELSE -((-a) \div b)

\* time.Unix(sec, nsec).In(zone): the time.Time the engine hands to
\* EncodeTime. A time.Time holds whole seconds since the epoch and a
\* nanosecond field normalised into [0, 999999999].
Time(sec, nsec, offset) ==
    IF nsec < 0 \/ nsec >= NanosPerSecond
    THEN LET n == TruncDiv(nsec, NanosPerSecond)
             r == nsec - n * NanosPerSecond
         IN IF r < 0
            THEN [sec |-> sec + n - 1, nsec |-> r + NanosPerSecond, offset |-> offset]
            ELSE [sec |-> sec + n, nsec |-> r, offset |-> offset]
    ELSE [sec |-> sec, nsec |-> nsec, offset |-> offset]

\* t.Unix()
Unix(t) == t.sec

\* t.Nanosecond()
Nanosecond(t) == t.nsec

\* The struct built by dividing the offset from the epoch with Go's
\* truncating division: seconds rounded toward zero, nanos of either sign.
timestampTruncating(t) ==
    IF Unix(t) < 0 /\ Nanosecond(t) > 0
    THEN [type |-> "timestamp", str |-> <<>>, File |-> <<>>, Line |-> 0,
          Function |-> <<>>, Seconds |-> Unix(t) + 1,
          Nanos |-> Nanosecond(t) - NanosPerSecond]
    ELSE [type |-> "timestamp", str |-> <<>>, File |-> <<>>, Line |-> 0,
          Function |-> <<>>, Seconds |-> Unix(t), Nanos |-> Nanosecond(t)]

\* timestamp{Seconds: t.Unix(), Nanos: t.Nanosecond()}
timestamp(t) ==
    [type |-> "timestamp", str |-> <<>>, File |-> <<>>, Line |-> 0,
     Function |-> <<>>, Seconds |-> Unix(t), Nanos |-> Nanosecond(t)]

\* func (t timestamp) MarshalLogObject(enc zapcore.ObjectEncoder) error
timestamp_MarshalLogObject(t) ==
    <<AddInt64("seconds", t.Seconds), AddInt("nanos", t.Nanos)>>

\* The civil date of a day number counted from 1970-01-01.
Date(days) ==
    LET z == days + 719468
        era == z \div 146097
        doe == z - era * 146097
        yoe == (doe - doe \div 1460 + doe \div 36524 - doe \div 146096) \div 365
        doy == doe - (365 * yoe + yoe \div 4 - yoe \div 100)
        mp == (5 * doy + 2) \div 153
        m == IF mp < 10 THEN mp + 3 ELSE mp - 9
    IN [year |-> yoe + era * 400 + (IF m <= 2 THEN 1 ELSE 0),
        month |-> m,
        day |-> doy - (153 * mp + 2) \div 5 + 1]

RECURSIVE TrimZeros(_)
\* time.formatNano with trim: trailing zeros dropped.
TrimZeros(s) ==
    IF Len(s) > 0 /\ s[Len(s)] = "0" THEN TrimZeros(SubSeq(s, 1, Len(s) - 1))
    ELSE s

\* Layout ".999999999": up to nine fractional digits, nothing for a whole second.
FracSecond9(nsec) ==
    LET d == TrimZeros(Pad(nsec, 9)) IN
    IF Len(d) = 0 THEN <<>> ELSE <<".">> \o d

\* Layout "Z07:00": Z for a zero offset, else the signed hh:mm.
ISO8601ColonTZ(offset) ==
    IF offset = 0 THEN <<"Z">>
    ELSE LET zone == TruncDiv(offset, 60)
             a == IF zone < 0 THEN -zone ELSE zone
         IN <<IF zone < 0 THEN "-" ELSE "+">>
            \o Pad(a \div 60, 2) \o <<":">> \o Pad(a % 60, 2)

\* Layout "2006-01-02T15:04:05" in the time's own zone.
DateTime(t) ==
    LET local == t.sec + t.offset
        d == Date(local \div SecondsPerDay)
        r == local % SecondsPerDay
    IN Pad(d.year, 4) \o <<"-">> \o Pad(d.month, 2) \o <<"-">> \o Pad(d.day, 2)
       \o <<"T">> \o Pad(r \div 3600, 2) \o <<":">> \o Pad((r % 3600) \div 60, 2)
       \o <<":">> \o Pad(r % 60, 2)

\* t.Format(time.RFC3339): whole seconds only.
RFC3339(t) == DateTime(t) \o ISO8601ColonTZ(t.offset)

\* zapcore.RFC3339NanoTimeEncoder(t, enc): t.Format(time.RFC3339Nano),
\* layout "2006-01-02T15:04:05.999999999Z07:00".
RFC3339Nano(t) == DateTime(t) \o FracSecond9(t.nsec) \o ISO8601ColonTZ(t.offset)

\* The instants the engine hands to EncodeTime, each as the arguments
\* (sec, nsec, zone offset) of time.Unix(sec, nsec).In(zone).
Instants ==
    { [sec |-> 1700000000, nsec |-> 123000000, offset |-> 0],
      [sec |-> 0, nsec |-> 0, offset |-> 0],
      [sec |-> 0, nsec |-> -1, offset |-> 0],
      [sec |-> -1, nsec |-> -1500000000, offset |-> 9 * 3600],
      [sec |-> 1, nsec |-> 1000000000, offset |-> -(5 * 3600 + 30 * 60)] }

TimeOf(i) == Time(i.sec, i.nsec, i.offset)

----
(* The encoder configuration *)

\* zapcore.OmitKey: a field whose key is OmitKey is left out of the output.
OmitKey == ""

\* The configuration with the level written under the engine's default key.
EncoderConfigLevelKey ==
    [MessageKey |-> "message",
     LevelKey |-> "level",
     TimeKey |-> "timestamp",
     NameKey |-> "logger",
     CallerKey |-> "logging.googleapis.com/sourceLocation",
     FunctionKey |-> OmitKey,
     StacktraceKey |-> "stacktrace",
     LineEnding |-> "\n",
     EncodeLevel |-> "severityEncoder",
     EncodeTime |-> "timestampEncoder",
     EncodeDuration |-> "zapcore.MillisDurationEncoder",
     EncodeCaller |-> "sourceLocationEncoder"]

\* var encoderConfig = zapcore.EncoderConfig{...}
EncoderConfigLiteral ==
    [MessageKey |-> "message",
     LevelKey |-> "severity",
     TimeKey |-> "timestamp",
     NameKey |-> "logger",
     CallerKey |-> "logging.googleapis.com/sourceLocation",
     FunctionKey |-> OmitKey,
     StacktraceKey |-> "stacktrace",
     LineEnding |-> "\n",
     EncodeLevel |-> "severityEncoder",
     EncodeTime |-> "timestampEncoder",
     EncodeDuration |-> "zapcore.MillisDurationEncoder",
     EncodeCaller |-> "sourceLocationEncoder"]

----
(* The encoding callbacks, as the engine's loggers invoke them *)

\* The loggers that render records concurrently, each on its own encoder.
Loggers == {1, 2}

\* How many invocations the loggers make in all.
MaxCalls == 2

RECURSIVE Total(_, _)
\* The number of invocations recorded for the loggers of S.
Total(c, S) ==
    IF S = {} THEN 0
    ELSE LET g == CHOOSE x \in S : TRUE IN Len(c[g]) + Total(c, S \ {g})

\* One invocation, as recorded in calls: which callback, with which input.
SeverityCall(l) == [fn |-> "severityEncoder", level |-> l]
CallerCall(c) == [fn |-> "sourceLocationEncoder", caller |-> c]
TimeCall(i) == [fn |-> "timestampEncoder", instant |-> i]

CanCall(g) == pc[g] = "idle" /\ Total(calls, Loggers) < MaxCalls

\* severityEncoder, with the table filled in for a level it does not hold.
severityEncoderFilling(g, l) ==
    /\ CanCall(g)
    /\ arg' = [arg EXCEPT ![g] = StringArg(MapIndex(logLevelSeverity, l))]
    /\ logLevelSeverity' =
          IF l \in DOMAIN logLevelSeverity THEN logLevelSeverity
          ELSE [k \in DOMAIN logLevelSeverity \cup {l} |->
                   IF k = l THEN <<"D", "E", "F", "A", "U", "L", "T">>
                   ELSE logLevelSeverity[k]]
    /\ pc' = [pc EXCEPT ![g] = "AppendString"]
    /\ calls' = [calls EXCEPT ![g] = Append(@, SeverityCall(l))]
    /\ UNCHANGED <<encoderConfig, enc, cfgVars>>

\* func severityEncoder(l zapcore.Level, enc zapcore.PrimitiveArrayEncoder):
\* the argument logLevelSeverity[l] is evaluated, then enc.AppendString runs.
severityEncoder(g, l) ==
    /\ CanCall(g)
    /\ arg' = [arg EXCEPT ![g] = StringArg(MapIndex(logLevelSeverity, l))]
    /\ pc' = [pc EXCEPT ![g] = "AppendString"]
    /\ calls' = [calls EXCEPT ![g] = Append(@, SeverityCall(l))]
    /\ UNCHANGED <<logLevelSeverity, encoderConfig, enc, cfgVars>>

\* func sourceLocationEncoder(caller zapcore.EntryCaller, enc zapcore.PrimitiveArrayEncoder)
sourceLocationEncoder(g, caller) ==
    /\ CanCall(g)
    /\ IF enc[g].array
       THEN /\ arg' = [arg EXCEPT ![g] = sourceLocation(caller)]
            /\ pc' = [pc EXCEPT ![g] = "AppendObject"]
       ELSE /\ arg' = [arg EXCEPT ![g] = StringArg(TrimmedPath(caller))]
            /\ pc' = [pc EXCEPT ![g] = "AppendString"]
    /\ calls' = [calls EXCEPT ![g] = Append(@, CallerCall(caller))]
    /\ UNCHANGED <<logLevelSeverity, encoderConfig, enc, cfgVars>>

\* func timestampEncoder(t time.Time, enc zapcore.PrimitiveArrayEncoder).
\* zapcore.RFC3339NanoTimeEncoder hands the encoder the time in layout
\* RFC3339Nano, as one string (AppendString, or AppendTimeLayout where the
\* encoder has it).
timestampEncoder(g, i) ==
    /\ CanCall(g)
    /\ IF enc[g].array
       THEN /\ arg' = [arg EXCEPT ![g] = timestamp(TimeOf(i))]
            /\ pc' = [pc EXCEPT ![g] = "AppendObject"]
       ELSE /\ arg' = [arg EXCEPT ![g] = StringArg(RFC3339Nano(TimeOf(i)))]
            /\ pc' = [pc EXCEPT ![g] = "AppendString"]
    /\ calls' = [calls EXCEPT ![g] = Append(@, TimeCall(i))]
    /\ UNCHANGED <<logLevelSeverity, encoderConfig, enc, cfgVars>>

\* v.MarshalLogObject(enc), for the two object types of the package.
MarshalLogObject(v) ==
    IF v.type = "sourceLocation" THEN sourceLocation_MarshalLogObject(v)
    ELSE timestamp_MarshalLogObject(v)

\* enc.AppendString(s): the encoder takes one string, and the callback returns.
AppendString(g) ==
    /\ pc[g] = "AppendString"
    /\ enc' = [enc EXCEPT ![g].elems = Append(@, StringElem(arg[g].str))]
    /\ pc' = [pc EXCEPT ![g] = "idle"]
    /\ arg' = [arg EXCEPT ![g] = NoArg]
    /\ UNCHANGED <<logLevelSeverity, encoderConfig, calls, cfgVars>>

\* aenc.AppendObject(v): the encoder takes the one object v marshals itself
\* into, and the callback returns.
AppendObject(g) ==
    /\ pc[g] = "AppendObject"
    /\ enc' = [enc EXCEPT ![g].elems = Append(@, ObjectElem(MarshalLogObject(arg[g])))]
    /\ pc' = [pc EXCEPT ![g] = "idle"]
    /\ arg' = [arg EXCEPT ![g] = NoArg]
    /\ UNCHANGED <<logLevelSeverity, encoderConfig, calls, cfgVars>>

Init ==
    /\ logLevelSeverity = SeverityTable
    /\ encoderConfig = EncoderConfigLiteral
    /\ enc \in [Loggers -> {[array |-> b, elems |-> <<>>] : b \in BOOLEAN}]
    /\ pc = [g \in Loggers |-> "idle"]
    /\ arg = [g \in Loggers |-> NoArg]
    /\ calls = [g \in Loggers |-> <<>>]
    /\ levels = <<>>
    /\ samplings = <<>>
    /\ arrays = <<>>
    /\ configs = <<>>
    /\ returned = <<>>

Next ==
    \E g \in Loggers :
        \/ \E l \in Levels : severityEncoder(g, l)
        \/ \E c \in Callers : sourceLocationEncoder(g, c)
        \/ \E i \in Instants : timestampEncoder(g, i)
        \/ AppendString(g)
        \/ AppendObject(g)

Spec == Init /\ [][Next]_vars

----
(* Reading the encoders' output back *)

IsDigit(c) == \E d \in 1..10 : Digits[d] = c

DigitValue(c) == (CHOOSE d \in 1..10 : Digits[d] = c) - 1

AllDigits(s) == Len(s) > 0 /\ \A k \in 1..Len(s) : IsDigit(s[k])

RECURSIVE ParseUint(_)
ParseUint(s) ==
    IF Len(s) = 0 THEN 0
    ELSE 10 * ParseUint(SubSeq(s, 1, Len(s) - 1)) + DigitValue(s[Len(s)])

\* A decimal integer as JSON and strconv.Atoi read it: an optional minus
\* sign, then digits with no leading zero.
IsDecimal(s) ==
    LET d == IF Len(s) > 0 /\ s[1] = "-" THEN SubSeq(s, 2, Len(s)) ELSE s IN
    AllDigits(d) /\ (Len(d) > 1 => d[1] # "0")

Atoi(s) ==
    IF Len(s) > 0 /\ s[1] = "-" THEN -ParseUint(SubSeq(s, 2, Len(s)))
    ELSE ParseUint(s)

RECURSIVE Count(_, _)
Count(s, c) ==
    IF Len(s) = 0 THEN 0
    ELSE (IF s[1] = c THEN 1 ELSE 0) + Count(SubSeq(s, 2, Len(s)), c)

IsSuffix(t, s) == Len(t) <= Len(s) /\ SubSeq(s, Len(s) - Len(t) + 1, Len(s)) = t

RECURSIVE Pow10(_)
Pow10(k) == IF k = 0 THEN 1 ELSE 10 * Pow10(k - 1)

\* The day number, counted from 1970-01-01, of a civil date.
DaysFromCivil(year, month, day) ==
    LET y == IF month <= 2 THEN year - 1 ELSE year
        era == y \div 400
        yoe == y - era * 400
        mp == IF month > 2 THEN month - 3 ELSE month + 9
        doy == (153 * mp + 2) \div 5 + day - 1
        doe == yoe * 365 + yoe \div 4 - yoe \div 100 + doy
    IN era * 146097 + doe - 719468

\* The fractional digits of an RFC 3339 text: those after a "." at place 20.
FracDigits(s) ==
    IF Len(s) >= 20 /\ s[20] = "."
    THEN LET n == CHOOSE n \in 0..(Len(s) - 20) :
                      /\ \A k \in 21..(20 + n) : IsDigit(s[k])
                      /\ (20 + n = Len(s) \/ ~IsDigit(s[21 + n]))
         IN SubSeq(s, 21, 20 + n)
    ELSE <<>>

\* The zone of an RFC 3339 text: what follows the seconds and the fraction.
ZoneText(s) ==
    LET f == FracDigits(s)
        from == IF Len(s) >= 20 /\ s[20] = "." THEN 21 + Len(f) ELSE 20
    IN SubSeq(s, from, Len(s))

IsZone(z) ==
    \/ z = <<"Z">>
    \/ /\ Len(z) = 6
       /\ z[1] \in {"+", "-"}
       /\ AllDigits(SubSeq(z, 2, 3))
       /\ z[4] = ":"
       /\ AllDigits(SubSeq(z, 5, 6))

\* RFC 3339 date-time: yyyy-mm-ddThh:mm:ss, an optional "." and fraction, a zone.
IsRFC3339(s) ==
    /\ Len(s) >= 20
    /\ AllDigits(SubSeq(s, 1, 4)) /\ s[5] = "-"
    /\ AllDigits(SubSeq(s, 6, 7)) /\ s[8] = "-"
    /\ AllDigits(SubSeq(s, 9, 10)) /\ s[11] = "T"
    /\ AllDigits(SubSeq(s, 12, 13)) /\ s[14] = ":"
    /\ AllDigits(SubSeq(s, 15, 16)) /\ s[17] = ":"
    /\ AllDigits(SubSeq(s, 18, 19))
    /\ ParseUint(SubSeq(s, 6, 7)) \in 1..12
    /\ ParseUint(SubSeq(s, 9, 10)) \in 1..31
    /\ ParseUint(SubSeq(s, 12, 13)) \in 0..23
    /\ ParseUint(SubSeq(s, 15, 16)) \in 0..59
    /\ ParseUint(SubSeq(s, 18, 19)) \in 0..59
    /\ (s[20] = "." => Len(FracDigits(s)) \in 1..9)
    /\ IsZone(ZoneText(s))

ZoneOffset(z) ==
    IF z = <<"Z">> THEN 0
    ELSE (IF z[1] = "-" THEN -1 ELSE 1)
         * (ParseUint(SubSeq(z, 2, 3)) * 3600 + ParseUint(SubSeq(z, 5, 6)) * 60)

\* The instant an RFC 3339 text names: seconds since the epoch and nanoseconds.
ParseRFC3339(s) ==
    LET f == FracDigits(s) IN
    [sec |-> DaysFromCivil(ParseUint(SubSeq(s, 1, 4)), ParseUint(SubSeq(s, 6, 7)),
                           ParseUint(SubSeq(s, 9, 10))) * SecondsPerDay
             + ParseUint(SubSeq(s, 12, 13)) * 3600
             + ParseUint(SubSeq(s, 15, 16)) * 60
             + ParseUint(SubSeq(s, 18, 19))
             - ZoneOffset(ZoneText(s)),
     nsec |-> ParseUint(f) * Pow10(9 - Len(f))]

\* The invocations of callback fn that have returned, as <<logger, index>>.
Completed(fn) ==
    {x \in Loggers \X (1..MaxCalls + 1) :
        /\ x[2] <= Len(enc[x[1]].elems)
        /\ x[2] <= Len(calls[x[1]])
        /\ calls[x[1]][x[2]].fn = fn}

CallOf(x) == calls[x[1]][x[2]]
ElemOf(x) == enc[x[1]].elems[x[2]]
ArrayEncoder(x) == enc[x[1]].array

Keys(fields) == [k \in 1..Len(fields) |-> fields[k].key]

----
(* Claims about the encoding callbacks *)

DocumentedSeverity ==
    [l \in NativeLevels |->
        CASE l = DebugLevel -> <<"D", "E", "B", "U", "G">>
          [] l = InfoLevel -> <<"I", "N", "F", "O">>
          [] l = WarnLevel -> <<"W", "A", "R", "N", "I", "N", "G">>
          [] l = ErrorLevel -> <<"E", "R", "R", "O", "R">>
          [] l = DPanicLevel -> <<"C", "R", "I", "T", "I", "C", "A", "L">>
          [] l = PanicLevel -> <<"A", "L", "E", "R", "T">>
          [] l = FatalLevel -> <<"E", "M", "E", "R", "G", "E", "N", "C", "Y">>]

\* C1: for each of the seven native levels severityEncoder appends exactly
\* the documented string; the table holds exactly these seven levels and no
\* two of them share a string.
C1_SeverityMapping ==
    /\ DOMAIN logLevelSeverity = NativeLevels
    /\ \A a, b \in NativeLevels :
          a # b => MapIndex(logLevelSeverity, a) # MapIndex(logLevelSeverity, b)
    /\ \A x \in Completed("severityEncoder") :
          CallOf(x).level \in NativeLevels =>
              ElemOf(x) = StringElem(DocumentedSeverity[CallOf(x).level])
    /\ \A x, y \in Completed("severityEncoder") :
          /\ CallOf(x).level \in NativeLevels
          /\ CallOf(y).level \in NativeLevels
          /\ CallOf(x).level # CallOf(y).level
          => ElemOf(x).str # ElemOf(y).str

\* Two invocations for different native levels have returned, one of them for Warn.
C1_Witness ==
    \E x, y \in Completed("severityEncoder") :
        /\ CallOf(x).level = WarnLevel
        /\ CallOf(y).level \in NativeLevels \ {WarnLevel}

\* C2: for a level outside the seven native ones severityEncoder appends a
\* fallback string that is never empty.
C2_FallbackNeverEmpty ==
    \A x \in Completed("severityEncoder") :
        CallOf(x).level \notin NativeLevels =>
            ElemOf(x).kind = "string" /\ Len(ElemOf(x).str) > 0

\* C3: sourceLocationEncoder appends, on an encoder that takes objects, one
\* object with exactly the keys file, line and function, all strings, the
\* line in decimal; on any other encoder one string, the trimmed path: the
\* end of File ":" Line that keeps at most the last directory of the file.
C3_SourceLocationShape ==
    \A x \in Completed("sourceLocationEncoder") :
        LET c == CallOf(x).caller
            e == ElemOf(x)
        IN IF ArrayEncoder(x)
           THEN /\ e.kind = "object"
                /\ Keys(e.fields) = <<"file", "line", "function">>
                /\ \A k \in 1..Len(e.fields) : e.fields[k].type = "string"
                /\ e.fields[1].s = c.File
                /\ IsDecimal(e.fields[2].s)
                /\ Atoi(e.fields[2].s) = c.Line
                /\ e.fields[3].s = c.Function
           ELSE /\ e.kind = "string"
                /\ e.str = TrimmedPath(c)
                /\ c.Defined =>
                      /\ IsSuffix(e.str, c.File \o <<":">> \o Itoa(c.Line))
                      /\ IsSuffix(<<":">> \o Itoa(c.Line), e.str)
                      /\ Count(e.str, "/") = IF Count(c.File, "/") = 0 THEN 0 ELSE 1
                      /\ \/ Len(e.str) = Len(c.File) + 1 + Len(Itoa(c.Line))
                         \/ c.File[Len(c.File) + 1 + Len(Itoa(c.Line)) - Len(e.str)] = "/"

\* The same caller, in a file two directories deep, has been encoded in both shapes.
C3_Witness ==
    \E x, y \in Completed("sourceLocationEncoder") :
        /\ ArrayEncoder(x) /\ ~ArrayEncoder(y)
        /\ CallOf(x).caller = CallOf(y).caller
        /\ Count(CallOf(x).caller.File, "/") >= 2
        /\ ElemOf(x).kind = "object" /\ ElemOf(y).kind = "string"

\* C4: timestampEncoder appends, on an encoder that takes objects, one object
\* with exactly the keys seconds and nanos, both integers; on any other
\* encoder one RFC 3339 string that names the same instant to the nanosecond.
C4_TimestampShape ==
    \A x \in Completed("timestampEncoder") :
        LET t == TimeOf(CallOf(x).instant)
            e == ElemOf(x)
        IN IF ArrayEncoder(x)
           THEN /\ e.kind = "object"
                /\ Keys(e.fields) = <<"seconds", "nanos">>
                /\ \A k \in 1..Len(e.fields) : e.fields[k].type \in {"int64", "int"}
                /\ (CallOf(x).instant.sec = 1700000000
                    /\ CallOf(x).instant.nsec = 123000000)
                   => e.fields[1].n = 1700000000 /\ e.fields[2].n = 123000000
           ELSE /\ e.kind = "string"
                /\ IsRFC3339(e.str)
                /\ ParseRFC3339(e.str) = [sec |-> Unix(t), nsec |-> Nanosecond(t)]

\* An instant with a fraction of a second has been encoded in both shapes.
C4_Witness ==
    \E x, y \in Completed("timestampEncoder") :
        /\ ArrayEncoder(x) /\ ~ArrayEncoder(y)
        /\ CallOf(x).instant = CallOf(y).instant
        /\ CallOf(x).instant.nsec % NanosPerSecond # 0
        /\ ElemOf(x).kind = "object" /\ ElemOf(y).kind = "string"

\* C9: the structured timestamp of an instant sec s + nsec ns from the epoch
\* has 0 <= nanos < 1e9 and seconds * 1e9 + nanos = sec * 1e9 + nsec, stated
\* as (seconds - sec) * 1e9 = nsec - nanos to stay within the integers' range.
C9_TimestampFloor ==
    \A x \in Completed("timestampEncoder") :
        ArrayEncoder(x) =>
            LET i == CallOf(x).instant
                seconds == ElemOf(x).fields[1].n
                nanos == ElemOf(x).fields[2].n
            IN /\ 0 <= nanos /\ nanos < NanosPerSecond
               /\ (seconds - i.sec) * NanosPerSecond = i.nsec - nanos

\* An instant before the epoch, not on a whole second, has been encoded.
C9_Witness ==
    \E x \in Completed("timestampEncoder") :
        /\ ArrayEncoder(x)
        /\ CallOf(x).instant.sec <= 0 /\ CallOf(x).instant.nsec < 0
        /\ ElemOf(x).fields[1].n < 0
        /\ ElemOf(x).fields[2].n > 0

\* What one invocation appends when it runs alone, from the table and the
\* configuration as initialised.
Alone(array, call) ==
    CASE call.fn = "severityEncoder" ->
            StringElem(MapIndex(SeverityTable, call.level))
      [] call.fn = "sourceLocationEncoder" ->
            IF array
            THEN ObjectElem(sourceLocation_MarshalLogObject(sourceLocation(call.caller)))
            ELSE StringElem(TrimmedPath(call.caller))
      [] call.fn = "timestampEncoder" ->
            IF array
            THEN ObjectElem(timestamp_MarshalLogObject(timestamp(TimeOf(call.instant))))
            ELSE StringElem(RFC3339Nano(TimeOf(call.instant)))

\* C10: under every interleaving of the loggers' invocations, each encoder
\* holds one element per returned invocation made on it, each the element
\* that invocation appends when run alone, and the severity table and the
\* package-level encoderConfig are as initialised.
C10_Reentrant ==
    /\ logLevelSeverity = SeverityTable
    /\ encoderConfig = EncoderConfigLiteral
    /\ \A g \in Loggers :
          /\ Len(enc[g].elems) = Len(calls[g]) - (IF pc[g] = "idle" THEN 0 ELSE 1)
          /\ \A k \in 1..Len(enc[g].elems) :
                enc[g].elems[k] = Alone(enc[g].array, calls[g][k])

\* Two loggers are inside a callback at once, one of them in severityEncoder
\* for a level the table does not hold.
C10_Witness ==
    \E g, h \in Loggers :
        /\ g # h
        /\ pc[g] # "idle" /\ pc[h] # "idle"
        /\ calls[g][Len(calls[g])].fn = "severityEncoder"
        /\ calls[g][Len(calls[g])].level \notin NativeLevels
        /\ calls[h][Len(calls[h])].fn = "severityEncoder"

----
(* The configuration builders *)

\* How many configurations the callers ask for in all.
MaxConfigs == 2

\* func NewDevelopmentEncoderConfig() zapcore.EncoderConfig, were it to
\* return a configuration of its own.
NewDevelopmentEncoderConfigOwn == EncoderConfigLevelKey

\* func NewProductionEncoderConfig() zapcore.EncoderConfig: a copy of the
\* package-level value.
NewProductionEncoderConfig == encoderConfig

\* func NewDevelopmentEncoderConfig() zapcore.EncoderConfig
NewDevelopmentEncoderConfig == encoderConfig

\* The value of configuration c, pointers and slices followed into the heap.
Deref(c, lv, sm, ar) ==
    [Level |-> lv[c.Level],
     Development |-> c.Development,
     Sampling |-> sm[c.Sampling],
     Encoding |-> c.Encoding,
     EncoderConfig |-> c.EncoderConfig,
     OutputPaths |-> SubSeq(ar[c.OutputPaths.array], 1, c.OutputPaths.len),
     ErrorOutputPaths |-> SubSeq(ar[c.ErrorOutputPaths.array], 1, c.ErrorOutputPaths.len)]

\* The zap.Config literal both builders return: a fresh level holder
\* (zap.NewAtomicLevelAt), a fresh SamplingConfig behind a pointer and two
\* fresh one-element path slices; the encoder configuration is held by value.
zapConfig(builder, level, development, encoderCfg) ==
    /\ Len(configs) < MaxConfigs
    /\ levels' = Append(levels, level)
    /\ samplings' = Append(samplings, [Initial |-> 100, Thereafter |-> 100])
    /\ arrays' = arrays \o <<(<<"stderr">>), (<<"stderr">>)>>
    /\ LET c == [Level |-> Len(levels) + 1,
                 Development |-> development,
                 Sampling |-> Len(samplings) + 1,
                 Encoding |-> "json",
                 EncoderConfig |-> encoderCfg,
                 OutputPaths |-> [array |-> Len(arrays) + 1, len |-> 1],
                 ErrorOutputPaths |-> [array |-> Len(arrays) + 2, len |-> 1]]
       IN /\ configs' = Append(configs, c)
          /\ returned' = Append(returned,
                [builder |-> builder, value |-> Deref(c, levels', samplings', arrays')])
    /\ UNCHANGED <<logLevelSeverity, encoderConfig, encVars>>

\* NewProductionConfig with the development literal's level and flag.
NewProductionConfigAsDevelopment ==
    zapConfig("NewProductionConfig", DebugLevel, TRUE, NewProductionEncoderConfig)

\* NewProductionConfig handing out one package-level SamplingConfig: every
\* configuration it returns points at the first one's.
NewProductionConfigSharedSampling ==
    /\ Len(configs) < MaxConfigs
    /\ levels' = Append(levels, InfoLevel)
    /\ samplings' = IF samplings = <<>>
                    THEN <<[Initial |-> 100, Thereafter |-> 100]>>
                    ELSE samplings
    /\ arrays' = arrays \o <<(<<"stderr">>), (<<"stderr">>)>>
    /\ LET c == [Level |-> Len(levels) + 1,
                 Development |-> FALSE,
                 Sampling |-> 1,
                 Encoding |-> "json",
                 EncoderConfig |-> NewProductionEncoderConfig,
                 OutputPaths |-> [array |-> Len(arrays) + 1, len |-> 1],
                 ErrorOutputPaths |-> [array |-> Len(arrays) + 2, len |-> 1]]
       IN /\ configs' = Append(configs, c)
          /\ returned' = Append(returned,
                [builder |-> "NewProductionConfig",
                 value |-> Deref(c, levels', samplings', arrays')])
    /\ UNCHANGED <<logLevelSeverity, encoderConfig, encVars>>

\* func NewProductionConfig() zap.Config
NewProductionConfig ==
    zapConfig("NewProductionConfig", InfoLevel, FALSE, NewProductionEncoderConfig)

\* func NewDevelopmentConfig() zap.Config
NewDevelopmentConfig ==
    zapConfig("NewDevelopmentConfig", DebugLevel, TRUE, NewDevelopmentEncoderConfig)

----
(* What a caller may do to a configuration it was returned *)

Held == 1..Len(configs)

\* cfg.Level.SetLevel(l)
SetLevel(k, l) ==
    /\ levels[configs[k].Level] # l
    /\ levels' = [levels EXCEPT ![configs[k].Level] = l]
    /\ UNCHANGED <<logLevelSeverity, encoderConfig, encVars,
                   samplings, arrays, configs, returned>>

\* cfg.Sampling.Initial, cfg.Sampling.Thereafter = initial, thereafter
SetSampling(k, initial, thereafter) ==
    /\ samplings[configs[k].Sampling] # [Initial |-> initial, Thereafter |-> thereafter]
    /\ samplings' = [samplings EXCEPT ![configs[k].Sampling] =
                        [Initial |-> initial, Thereafter |-> thereafter]]
    /\ UNCHANGED <<logLevelSeverity, encoderConfig, encVars,
                   levels, arrays, configs, returned>>

\* cfg.OutputPaths[0] = path
SetOutputPath(k, path) ==
    /\ arrays[configs[k].OutputPaths.array][1] # path
    /\ arrays' = [arrays EXCEPT ![configs[k].OutputPaths.array][1] = path]
    /\ UNCHANGED <<logLevelSeverity, encoderConfig, encVars,
                   levels, samplings, configs, returned>>

\* cfg.ErrorOutputPaths[0] = path
SetErrorOutputPath(k, path) ==
    /\ arrays[configs[k].ErrorOutputPaths.array][1] # path
    /\ arrays' = [arrays EXCEPT ![configs[k].ErrorOutputPaths.array][1] = path]
    /\ UNCHANGED <<logLevelSeverity, encoderConfig, encVars,
                   levels, samplings, configs, returned>>

\* cfg.EncoderConfig.LevelKey = key
SetLevelKey(k, key) ==
    /\ configs[k].EncoderConfig.LevelKey # key
    /\ configs' = [configs EXCEPT ![k].EncoderConfig.LevelKey = key]
    /\ UNCHANGED <<logLevelSeverity, encoderConfig, encVars,
                   levels, samplings, arrays, returned>>

ConfigNext ==
    \/ NewProductionConfig
    \/ NewDevelopmentConfig
    \/ \E k \in Held :
          \/ SetLevel(k, ErrorLevel)
          \/ SetSampling(k, 1, 10)
          \/ SetOutputPath(k, "stdout")
          \/ SetErrorOutputPath(k, "stdout")
          \/ SetLevelKey(k, "level")

\* The builders run whatever the loggers do: here no logger is rendering.
ConfigInit == Init /\ \A g \in Loggers : enc[g].array

ConfigSpec == ConfigInit /\ [][ConfigNext]_vars

----
(* Claims about the configuration builders *)

Returned(builder) == {k \in 1..Len(returned) : returned[k].builder = builder}

\* The present value of the configuration returned by call k.
Now(k) == Deref(configs[k], levels, samplings, arrays)

\* The keys under which a record's fields come out: those that are not OmitKey.
EmittedKeys(c) ==
    {c.MessageKey, c.LevelKey, c.TimeKey, c.NameKey, c.CallerKey,
     c.FunctionKey, c.StacktraceKey} \ {OmitKey}

\* C5: every call to NewProductionConfig returns level INFO, development
\* false, sampling 100/100, encoding json, both path lists exactly [stderr]
\* and the shared encoder field mappings; and the call is always possible.
C5_ProductionConfig ==
    /\ \A k \in Returned("NewProductionConfig") :
          returned[k].value =
              [Level |-> InfoLevel,
               Development |-> FALSE,
               Sampling |-> [Initial |-> 100, Thereafter |-> 100],
               Encoding |-> "json",
               EncoderConfig |-> encoderConfig,
               OutputPaths |-> <<"stderr">>,
               ErrorOutputPaths |-> <<"stderr">>]
    /\ Len(configs) < MaxConfigs => ENABLED NewProductionConfig

\* NewProductionConfig has returned after an earlier configuration was changed.
C5_Witness ==
    \E j, k \in 1..Len(returned) :
        /\ j < k
        /\ returned[k].builder = "NewProductionConfig"
        /\ Now(j) # returned[j].value

\* C6: every call to NewDevelopmentConfig returns level DEBUG and development
\* true, and what it returns differs from what NewProductionConfig returns in
\* those two fields only; the two encoder-config constructors return the same.
C6_DevelopmentConfig ==
    /\ NewDevelopmentEncoderConfig = NewProductionEncoderConfig
    /\ \A k \in Returned("NewDevelopmentConfig") :
          /\ returned[k].value.Level = DebugLevel
          /\ returned[k].value.Development = TRUE
          /\ \A j \in Returned("NewProductionConfig") :
                /\ returned[j].value.Level # returned[k].value.Level
                /\ returned[j].value.Development # returned[k].value.Development
                /\ returned[k].value =
                      [returned[j].value EXCEPT !.Level = DebugLevel,
                                                !.Development = TRUE]

\* Both builders have returned.
C6_Witness ==
    /\ Returned("NewDevelopmentConfig") # {}
    /\ Returned("NewProductionConfig") # {}

\* The heap cells a configuration points at.
Cells(c) ==
    {<<"level", c.Level>>, <<"sampling", c.Sampling>>,
     <<"array", c.OutputPaths.array>>, <<"array", c.ErrorOutputPaths.array>>}

\* C7: whatever the callers did to the configurations returned before, a
\* builder returns a value equal to the first it returned; no two returned
\* configurations share a level holder, a sampling record or a path array;
\* the package-level encoderConfig is as initialised.
C7_BuildersIdempotent ==
    /\ \A j, k \in 1..Len(returned) :
          returned[j].builder = returned[k].builder
              => returned[j].value = returned[k].value
    /\ \A j, k \in Held : j # k => Cells(configs[j]) \cap Cells(configs[k]) = {}
    /\ \A k \in Held : Cardinality(Cells(configs[k])) = 4
    /\ encoderConfig = EncoderConfigLiteral

\* The same builder has returned twice, and the first configuration it
\* returned has had its level, sampling, both path lists and level key changed.
C7_Witness ==
    /\ Len(returned) >= 2
    /\ returned[1].builder = returned[2].builder
    /\ Now(1).Level # returned[1].value.Level
    /\ Now(1).Sampling # returned[1].value.Sampling
    /\ Now(1).OutputPaths # returned[1].value.OutputPaths
    /\ Now(1).ErrorOutputPaths # returned[1].value.ErrorOutputPaths
    /\ Now(1).EncoderConfig # returned[1].value.EncoderConfig
    /\ Now(2) = returned[2].value

\* The bindings C8 names.
C8Bindings(c) ==
    /\ c.MessageKey = "message"
    /\ c.LevelKey = "severity"
    /\ c.TimeKey = "timestamp"
    /\ c.NameKey = "logger"
    /\ c.CallerKey = "logging.googleapis.com/sourceLocation"
    /\ c.StacktraceKey = "stacktrace"
    /\ c.FunctionKey = OmitKey
    /\ Cardinality(EmittedKeys(c)) = 6
    /\ c.FunctionKey \notin EmittedKeys(c)
    /\ c.EncodeLevel = "severityEncoder"
    /\ c.EncodeTime = "timestampEncoder"
    /\ c.EncodeCaller = "sourceLocationEncoder"
    /\ c.EncodeDuration = "zapcore.MillisDurationEncoder"

\* C8: both encoder-config constructors, and so every configuration a builder
\* returns, bind message, severity, timestamp, logger,
\* logging.googleapis.com/sourceLocation and stacktrace, six distinct keys,
\* omit the function key, and name the package's severity, timestamp and
\* source-location encoders and the engine's millisecond duration encoder.
C8_EncoderConfigBindings ==
    /\ C8Bindings(NewProductionEncoderConfig)
    /\ C8Bindings(NewDevelopmentEncoderConfig)
    /\ \A k \in 1..Len(returned) : C8Bindings(returned[k].value.EncoderConfig)

\* Each constructor's configuration has been returned inside a builder's, and
\* a caller has since rebound the level key of its copy.
C8_Witness ==
    /\ Returned("NewDevelopmentConfig") # {}
    /\ Returned("NewProductionConfig") # {}
    /\ \E k \in Held : configs[k].EncoderConfig.LevelKey # "severity"

====
